---- MODULE Spec2Model ----
(***************************************************************************)
(* Document lifecycle orchestration of api/apps/document_app.py: the       *)
(* request handlers and the four stores they sequence (document registry,  *)
(* blob store, per-tenant search index, task queue).  Every store call of  *)
(* a handler is one atomic step, so handlers interleave between calls.     *)
(***************************************************************************)
EXTENDS Integers, Sequences, FiniteSets, TLC

\* ------------------------------------------------------------------ bounds
MaxDocs == 2
MaxProcs == 2
MaxJobs == 2
MaxBlobs == 2
MaxChunks == 1
ChunkTok == 2
MaxBatch == 2

\* ------------------------------------------------------------- vocabulary
DocIds == 1..MaxDocs
Procs == 1..MaxProcs
JobIds == 1..MaxJobs
Kbs == {"k1", "k2"}
Tenants == {"t1", "t2"}

KbTenant(kb) == IF kb = "k1" THEN "t1" ELSE "t2"
KbParser(kb) == "naive"
KbParserConfig(kb) == IF kb = "k1" THEN "cfg1" ELSE "cfg2"

\* TaskStatus values (api.db.TaskStatus)
UNSTART == "0"
RUNNING == "1"
CANCEL == "2"
DONE == "3"

NoDoc == [kb |-> "none"]
NoLoc == <<>>
NoTenant == "none"
NoAddr == <<>>

\* A name is <<stem, n, ext>>: "a.pdf" is <<"a", 0, "pdf">>, "a(1).pdf" is
\* <<"a", 1, "pdf">>.  A blob key is <<filename, k>>: the filename followed
\* by k underscores.
CrawlNames == {"a"}
CrawlKbs == {"k1"}
CreateNames == {<<"a", 0, "pdf">>, <<"b", 0, "pdf">>}

VARIABLES docs, nextId, blobs, files, f2d, index, tasks, jobs, proc

vars == <<docs, nextId, blobs, files, f2d, index, tasks, jobs, proc>>

\* ---------------------------------------------------------------- helpers
Idle ==
    [op |-> "idle", pc |-> "idle", kb |-> "none", name |-> <<>>, loc |-> NoLoc,
     ids |-> <<>>, i |-> 0, val |-> "", doc |-> NoDoc, did |-> 0,
     tenant |-> NoTenant, addr |-> NoAddr, errs |-> {}, ret |-> "",
     calls |-> <<>>, pre |-> <<>>, req |-> <<>>]

Busy(p) == proc[p].op # "idle"

Active == {p \in Procs : Busy(p)}

Working == {j \in JobIds : jobs[j].st = "working"}

Exists(d) == d \in DocIds /\ docs[d] # NoDoc

\* DocumentService.query(name=, kb_id=)
QueryByName(nm, kb) == {d \in DocIds : Exists(d) /\ docs[d].kb = kb /\ docs[d].name = nm}

\* DocumentService.insert refuses a (kb_id, name) the registry already holds
InsertRejects(nm, kb) == QueryByName(nm, kb) # {}

\* DocumentService.get_tenant_id: Document joined with its Knowledgebase
GetTenantId(d) == IF Exists(d) THEN KbTenant(docs[d].kb) ELSE NoTenant

\* File2DocumentService.get_minio_address: bucket = kb id, key = location
GetMinioAddress(d) == IF Exists(d) THEN <<docs[d].kb, docs[d].loc>> ELSE NoAddr

\* search.index_name(tenant_id): one index per tenant
IndexName(t) == t

\* ELASTICSEARCH.deleteByQuery(Q("match", doc_id=d), idxnm=index_name(t))
DeleteByDocId(idx, t, d) == {e \in idx : ~(e.idx = IndexName(t) /\ e.doc = d)}

\* ELASTICSEARCH.updateScriptByQuery(Q("term", doc_id=d), "available_int=v")
PatchByDocId(idx, t, d, v) ==
    {IF e.idx = IndexName(t) /\ e.doc = d THEN [e EXCEPT !.avail = v] ELSE e : e \in idx}

EntriesOf(idx, d) == {e \in idx : e.doc = d}

RECURSIVE SumTok(_)
SumTok(S) == IF S = {} THEN 0 ELSE LET e == CHOOSE x \in S : TRUE IN e.tok + SumTok(S \ {e})

\* api.db.services.duplicate_name: bump the "(n)" counter until the query is empty
RECURSIVE DuplicateName(_, _)
DuplicateName(nm, kb) ==
    IF QueryByName(nm, kb) = {} THEN nm
    ELSE DuplicateName(<<nm[1], nm[2] + 1, nm[3]>>, kb)

\* a handler may start: `lim` handlers at most run at once, and under the
\* sequential schedule ("seq") not while a worker is in the middle of a pass
CanStart(p, sched) ==
    /\ ~Busy(p)
    /\ sched = "conc" \/ Active = {}
    /\ sched = "seq" => Working = {}

\* the handler returns r; what it leaves behind is its request and its response
Finish(p, r) ==
    [proc EXCEPT ![p] = [Idle EXCEPT !.op = proc[p].op, !.pc = "done", !.ret = r,
                                     !.ids = proc[p].ids, !.val = proc[p].val,
                                     !.errs = proc[p].errs, !.calls = proc[p].calls,
                                     !.pre = proc[p].pre, !.kb = proc[p].kb,
                                     !.name = proc[p].name, !.req = proc[p].req]]

Log(p, c) == Append(proc[p].calls, c)

\* the stores as they were when a request arrived
Snapshot ==
    [docs |-> docs, index |-> index, tasks |-> tasks, jobs |-> jobs,
     blobs |-> blobs, files |-> files]

Init ==
    /\ docs = [d \in DocIds |-> NoDoc]
    /\ nextId = 1
    /\ blobs = {}
    /\ files = {}
    /\ f2d = {}
    /\ index = {}
    /\ tasks = {}
    /\ jobs = [j \in JobIds |-> [st |-> "none"]]
    /\ proc = [p \in Procs |-> Idle]

\* the response leaves the handler
Return(p) ==
    /\ proc[p].pc = "done"
    /\ proc' = [proc EXCEPT ![p] = Idle]
    /\ UNCHANGED <<docs, nextId, blobs, files, f2d, index, tasks, jobs>>

\* ------------------------------------------------------------------ create
NewDoc(kb, nm, type, loc, size) ==
    [kb |-> kb, name |-> nm, type |-> type, parser |-> KbParser(kb),
     cfg |-> KbParserConfig(kb), loc |-> loc, size |-> size, run |-> UNSTART, progress |-> 0, tok |-> 0, chunk |-> 0, dur |-> 0, status |-> "1"]

\* ids get_uuid() may still hand out to handlers already running
Pending == Cardinality({p \in Procs : proc[p].op \in {"create", "web_crawl"}})

StartCreate(p, sched, kbs, names) ==
    /\ CanStart(p, sched)
    /\ nextId + Pending <= MaxDocs
    /\ \E kb \in kbs, nm \in names :
         proc' = [proc EXCEPT ![p] = [Idle EXCEPT !.op = "create", !.pc = "cr_query",
                                                  !.kb = kb, !.name = nm,
                                                  !.pre = IF sched = "conc" THEN <<>> ELSE Snapshot]]
    /\ UNCHANGED <<docs, nextId, blobs, files, f2d, index, tasks, jobs>>

CreateQuery(p) ==
    /\ proc[p].pc = "cr_query"
    /\ proc' = IF QueryByName(proc[p].name, proc[p].kb) # {}
               THEN Finish(p, "Duplicated document name in the same knowledgebase.")
               ELSE [proc EXCEPT ![p].pc = "cr_insert"]
    /\ UNCHANGED <<docs, nextId, blobs, files, f2d, index, tasks, jobs>>

\* create inserting the row of an uploaded file instead of the placeholder
CreateInsertAsFile(p) ==
    /\ proc[p].pc = "cr_insert"
    /\ IF InsertRejects(proc[p].name, proc[p].kb)
       THEN /\ proc' = Finish(p, "exception")
            /\ UNCHANGED <<docs, nextId>>
       ELSE /\ docs' = [docs EXCEPT ![nextId] = NewDoc(proc[p].kb, proc[p].name, "pdf",
                                                       <<proc[p].name, 0>>, 1)]
            /\ nextId' = nextId + 1
            /\ proc' = Finish(p, "ok")
    /\ UNCHANGED <<blobs, files, f2d, index, tasks, jobs>>

CreateInsert(p) ==
    /\ proc[p].pc = "cr_insert"
    /\ IF InsertRejects(proc[p].name, proc[p].kb)
       THEN /\ proc' = Finish(p, "exception")
            /\ UNCHANGED <<docs, nextId>>
       ELSE /\ docs' = [docs EXCEPT ![nextId] = NewDoc(proc[p].kb, proc[p].name, "virtual", NoLoc, 0)]
            /\ nextId' = nextId + 1
            /\ proc' = Finish(p, "ok")
    /\ UNCHANGED <<blobs, files, f2d, index, tasks, jobs>>

\* --------------------------------------------------------------- web_crawl
StartWebCrawl(p, sched) ==
    /\ CanStart(p, sched)
    /\ nextId + Pending <= MaxDocs
    /\ Cardinality(blobs) + Cardinality({q \in Procs : proc[q].op = "web_crawl"}) < MaxBlobs
    /\ \E kb \in CrawlKbs, nm \in CrawlNames :
         proc' = [proc EXCEPT ![p] = [Idle EXCEPT !.op = "web_crawl", !.pc = "wc_name",
                                                  !.kb = kb, !.name = <<nm, 0, "pdf">>]]
    /\ UNCHANGED <<docs, nextId, blobs, files, f2d, index, tasks, jobs>>

WebCrawlName(p) ==
    /\ proc[p].pc = "wc_name"
    /\ LET fn == DuplicateName(proc[p].name, proc[p].kb) IN
         proc' = [proc EXCEPT ![p].pc = "wc_probe", ![p].name = fn, ![p].loc = <<fn, 0>>]
    /\ UNCHANGED <<docs, nextId, blobs, files, f2d, index, tasks, jobs>>

WebCrawlProbe(p) ==
    /\ proc[p].pc = "wc_probe"
    /\ proc' = IF <<proc[p].kb, proc[p].loc>> \in blobs
               THEN [proc EXCEPT ![p].loc = <<proc[p].loc[1], proc[p].loc[2] + 1>>]
               ELSE [proc EXCEPT ![p].pc = "wc_put"]
    /\ UNCHANGED <<docs, nextId, blobs, files, f2d, index, tasks, jobs>>

WebCrawlPut(p) ==
    /\ proc[p].pc = "wc_put"
    /\ blobs' = blobs \cup {<<proc[p].kb, proc[p].loc>>}
    /\ proc' = [proc EXCEPT ![p].pc = "wc_insert"]
    /\ UNCHANGED <<docs, nextId, files, f2d, index, tasks, jobs>>

WebCrawlInsert(p) ==
    /\ proc[p].pc = "wc_insert"
    /\ IF InsertRejects(proc[p].name, proc[p].kb)
       THEN /\ proc' = Finish(p, "exception")
            /\ UNCHANGED <<docs, nextId>>
       ELSE /\ docs' = [docs EXCEPT ![nextId] = NewDoc(proc[p].kb, proc[p].name, "pdf", proc[p].loc, 1)]
            /\ nextId' = nextId + 1
            /\ proc' = [proc EXCEPT ![p].pc = "wc_file", ![p].did = nextId]
    /\ UNCHANGED <<blobs, files, f2d, index, tasks, jobs>>

WebCrawlFile(p) ==
    /\ proc[p].pc = "wc_file"
    /\ files' = files \cup {[id |-> proc[p].did, name |-> proc[p].name]}
    /\ f2d' = f2d \cup {<<proc[p].did, proc[p].did>>}
    /\ proc' = Finish(p, "ok")
    /\ UNCHANGED <<docs, nextId, blobs, index, tasks, jobs>>

\* ------------------------------------------------------------------ upload
\* the file an upload carries: a picture
UploadNames == {<<"v", 0, "png">>}

\* the first key "filename", "filename_", ... the bucket does not hold
FreeKey(kb, fn) ==
    LET k == CHOOSE n \in 0..Cardinality(blobs) :
                 /\ <<kb, <<fn, n>>>> \notin blobs
                 /\ \A m \in 0..(n - 1) : <<kb, <<fn, m>>>> \in blobs
    IN <<fn, k>>

\* FileService.upload_document(kb, file_objs, user_id): a unique name, a free
\* key, the blob, the row (a picture: type visual, parser picture) and its
\* File entry; taken as one step
UploadDocument(kb, nm) ==
    LET fn == DuplicateName(nm, kb)
        loc == FreeKey(kb, fn)
    IN
      /\ blobs' = blobs \cup {<<kb, loc>>}
      /\ docs' = [docs EXCEPT ![nextId] = [NewDoc(kb, fn, "visual", loc, 1)
                                            EXCEPT !.parser = "picture"]]
      /\ nextId' = nextId + 1
      /\ files' = files \cup {[id |-> nextId, name |-> fn]}
      /\ f2d' = f2d \cup {<<nextId, nextId>>}

Upload(p, sched) ==
    /\ CanStart(p, sched)
    /\ nextId + Pending <= MaxDocs
    /\ Cardinality(blobs) < MaxBlobs
    /\ \E kb \in CrawlKbs, nm \in UploadNames : UploadDocument(kb, nm)
    /\ UNCHANGED <<index, tasks, jobs, proc>>

\* ---------------------------------------------------------------------- rm
Batches(max) == UNION {[1..n -> DocIds] : n \in 1..max}

\* the loop of rm moves to the next id, or leaves with the collected errors
RmNext(p, errs) ==
    IF proc[p].i < Len(proc[p].ids)
    THEN [proc EXCEPT ![p].i = proc[p].i + 1, ![p].pc = "rm_get", ![p].errs = errs,
                      ![p].doc = NoDoc, ![p].tenant = NoTenant, ![p].addr = NoAddr]
    ELSE [proc EXCEPT ![p] = [Idle EXCEPT !.op = "rm", !.pc = "done", !.ids = proc[p].ids,
                                          !.errs = errs, !.pre = proc[p].pre,
                                          !.calls = proc[p].calls,
                                          !.ret = IF errs = {} THEN "ok" ELSE "errors"]]

Cur(p) == proc[p].ids[proc[p].i]

StartRm(p, sched, max) ==
    /\ CanStart(p, sched)
    /\ \E ids \in Batches(max) :
         proc' = [proc EXCEPT ![p] = [Idle EXCEPT !.op = "rm", !.pc = "rm_get",
                                                  !.ids = ids, !.i = 1,
                                                  !.pre = IF sched = "conc" THEN <<>> ELSE Snapshot]]
    /\ UNCHANGED <<docs, nextId, blobs, files, f2d, index, tasks, jobs>>

RmGet(p) ==
    /\ proc[p].pc = "rm_get"
    /\ proc' = IF ~Exists(Cur(p))
               THEN Finish(p, "Document not found!")
               ELSE [proc EXCEPT ![p].pc = "rm_tenant"]
    /\ UNCHANGED <<docs, nextId, blobs, files, f2d, index, tasks, jobs>>

RmTenant(p) ==
    /\ proc[p].pc = "rm_tenant"
    /\ proc' = IF GetTenantId(Cur(p)) = NoTenant
               THEN Finish(p, "Tenant not found!")
               ELSE [proc EXCEPT ![p].pc = "rm_addr", ![p].tenant = GetTenantId(Cur(p))]
    /\ UNCHANGED <<docs, nextId, blobs, files, f2d, index, tasks, jobs>>

RmAddr(p) ==
    /\ proc[p].pc = "rm_addr"
    /\ proc' = IF GetMinioAddress(Cur(p)) = NoAddr
               THEN RmNext(p, proc[p].errs \cup {Cur(p)})
               ELSE [proc EXCEPT ![p].pc = "rm_remove", ![p].addr = GetMinioAddress(Cur(p))]
    /\ UNCHANGED <<docs, nextId, blobs, files, f2d, index, tasks, jobs>>

\* DocumentService.remove_document: purge the index entries, delete the row
RmRemove(p) ==
    /\ proc[p].pc = "rm_remove"
    /\ index' = DeleteByDocId(index, proc[p].tenant, Cur(p))
    /\ IF Exists(Cur(p))
       THEN /\ docs' = [docs EXCEPT ![Cur(p)] = NoDoc]
            /\ proc' = [proc EXCEPT ![p].pc = "rm_f2d"]
       ELSE /\ proc' = Finish(p, "Database error (Document removal)!")
            /\ UNCHANGED docs
    /\ UNCHANGED <<nextId, blobs, files, f2d, tasks, jobs>>

\* f2d = get_by_document_id(doc_id); f2d[0] raises when there is no mapping
RmFileDelete(p) ==
    /\ proc[p].pc = "rm_f2d"
    /\ LET maps == {m \in f2d : m[2] = Cur(p)} IN
         IF maps = {}
         THEN /\ proc' = RmNext(p, proc[p].errs \cup {Cur(p)})
              /\ UNCHANGED files
         ELSE /\ files' = {f \in files : \A m \in maps : f.id # m[1]}
              /\ proc' = [proc EXCEPT ![p].pc = "rm_f2ddel"]
    /\ UNCHANGED <<docs, nextId, blobs, f2d, index, tasks, jobs>>

RmMappingDelete(p) ==
    /\ proc[p].pc = "rm_f2ddel"
    /\ f2d' = {m \in f2d : m[2] # Cur(p)}
    /\ proc' = [proc EXCEPT ![p].pc = "rm_blob"]
    /\ UNCHANGED <<docs, nextId, blobs, files, index, tasks, jobs>>

RmBlob(p) ==
    /\ proc[p].pc = "rm_blob"
    /\ blobs' = blobs \ {proc[p].addr}
    /\ proc' = RmNext(p, proc[p].errs)
    /\ UNCHANGED <<docs, nextId, files, f2d, index, tasks, jobs>>

\* ------------------------------------------------------------------- rm_v2
\* the loop of rm_v2 moves to the next id, or leaves with the collected errors
RmV2Next(p, errs) ==
    IF proc[p].i < Len(proc[p].ids)
    THEN [proc EXCEPT ![p].i = proc[p].i + 1, ![p].errs = errs]
    ELSE [proc EXCEPT ![p] = [Idle EXCEPT !.op = "rm_v2", !.pc = "done", !.ids = proc[p].ids,
                                          !.tenant = proc[p].tenant, !.errs = errs,
                                          !.pre = proc[p].pre, !.calls = proc[p].calls,
                                          !.ret = IF errs = {} THEN "ok" ELSE "errors"]]

\* tenant_id and doc_id are what the request says
StartRmV2(p, sched, batches) ==
    /\ CanStart(p, sched)
    /\ \E ids \in batches, t \in Tenants :
         proc' = [proc EXCEPT ![p] = [Idle EXCEPT !.op = "rm_v2", !.pc = "r2_es",
                                                  !.ids = ids, !.i = 1, !.tenant = t,
                                                  !.pre = Snapshot]]
    /\ UNCHANGED <<docs, nextId, blobs, files, f2d, index, tasks, jobs>>

\* rm_v2 without its deleteByQuery call
RmV2SkipDelete(p) ==
    /\ proc[p].pc = "r2_es"
    /\ proc' = RmV2Next(p, proc[p].errs)
    /\ UNCHANGED <<docs, nextId, blobs, files, f2d, index, tasks, jobs>>

RmV2DeleteIndex(p) ==
    /\ proc[p].pc = "r2_es"
    /\ index' = DeleteByDocId(index, proc[p].tenant, Cur(p))
    /\ proc' = RmV2Next(p, proc[p].errs)
    /\ UNCHANGED <<docs, nextId, blobs, files, f2d, tasks, jobs>>

\* --------------------------------------------------------------------- run
FreeJobs == {j \in JobIds : jobs[j].st = "none"}

NewJob == CHOOSE j \in FreeJobs : \A k \in FreeJobs : j <= k

Triggers == {RUNNING, CANCEL}

\* the loop of run moves to the next id, or returns success
RunNext(p, calls) ==
    IF proc[p].i < Len(proc[p].ids)
    THEN [proc EXCEPT ![p].i = proc[p].i + 1, ![p].pc = "run_tenant", ![p].calls = calls,
                      ![p].doc = NoDoc, ![p].tenant = NoTenant, ![p].addr = NoAddr]
    ELSE [proc EXCEPT ![p] = [Idle EXCEPT !.op = "run", !.pc = "done", !.ret = "ok",
                                          !.ids = proc[p].ids, !.val = proc[p].val,
                                          !.calls = calls, !.pre = proc[p].pre]]

StartRun(p, sched, max) ==
    /\ CanStart(p, sched)
    /\ \E ids \in Batches(max), run \in Triggers :
         /\ Cardinality(FreeJobs) >= Len(ids)
         /\ proc' = [proc EXCEPT ![p] = [Idle EXCEPT !.op = "run", !.pc = "run_tenant",
                                                     !.ids = ids, !.i = 1, !.val = run,
                                                     !.pre = Snapshot]]
    /\ UNCHANGED <<docs, nextId, blobs, files, f2d, index, tasks, jobs>>

RunTenant(p) ==
    /\ proc[p].pc = "run_tenant"
    /\ proc' = IF GetTenantId(Cur(p)) = NoTenant
               THEN Finish(p, "Tenant not found!")
               ELSE [proc EXCEPT ![p].pc = "run_es", ![p].tenant = GetTenantId(Cur(p))]
    /\ UNCHANGED <<docs, nextId, blobs, files, f2d, index, tasks, jobs>>

\* run with its deleteByQuery call left out
RunSkipDeleteIndex(p) ==
    /\ proc[p].pc = "run_es"
    /\ proc' = IF proc[p].val = RUNNING
               THEN [proc EXCEPT ![p].pc = "run_task"]
               ELSE RunNext(p, proc[p].calls)
    /\ UNCHANGED <<docs, nextId, blobs, files, f2d, index, tasks, jobs>>

RunDeleteIndex(p) ==
    /\ proc[p].pc = "run_es"
    /\ index' = DeleteByDocId(index, proc[p].tenant, Cur(p))
    /\ proc' = IF proc[p].val = RUNNING
               THEN [proc EXCEPT ![p].pc = "run_task",
                                 ![p].calls = Log(p, <<"es_delete", Cur(p)>>)]
               ELSE RunNext(p, Log(p, <<"es_delete", Cur(p)>>))
    /\ UNCHANGED <<docs, nextId, blobs, files, f2d, tasks, jobs>>

RunDeleteTasks(p) ==
    /\ proc[p].pc = "run_task"
    /\ tasks' = {t \in tasks : t[1] # Cur(p)}
    /\ proc' = [proc EXCEPT ![p].pc = "run_get", ![p].calls = Log(p, <<"task_delete", Cur(p)>>)]
    /\ UNCHANGED <<docs, nextId, blobs, files, f2d, index, jobs>>

\* e, doc = get_by_id(id); doc.to_dict() raises when the row is gone
RunGet(p) ==
    /\ proc[p].pc = "run_get"
    /\ proc' = IF ~Exists(Cur(p))
               THEN Finish(p, "exception")
               ELSE [proc EXCEPT ![p].pc = "run_addr", ![p].doc = docs[Cur(p)]]
    /\ UNCHANGED <<docs, nextId, blobs, files, f2d, index, tasks, jobs>>

RunAddr(p) ==
    /\ proc[p].pc = "run_addr"
    /\ proc' = IF GetMinioAddress(Cur(p)) = NoAddr
               THEN Finish(p, "exception")
               ELSE [proc EXCEPT ![p].pc = "run_queue", ![p].addr = GetMinioAddress(Cur(p))]
    /\ UNCHANGED <<docs, nextId, blobs, files, f2d, index, tasks, jobs>>

\* queue_tasks(doc, bucket, name): Task rows for the pass, and the job on the queue
QueueTasks(j, d, tenant, addr) ==
    /\ jobs' = [jobs EXCEPT ![j] = [st |-> "queued", kind |-> "run", doc |-> d,
                                    tenant |-> tenant, addr |-> addr, n |-> 0, toks |-> 0]]
    /\ tasks' = tasks \cup {<<d, j>>}

RunQueue(p) ==
    /\ proc[p].pc = "run_queue"
    /\ FreeJobs # {}
    /\ QueueTasks(NewJob, Cur(p), proc[p].tenant, proc[p].addr)
    /\ proc' = RunNext(p, Log(p, <<"enqueue", Cur(p), NewJob>>))
    /\ UNCHANGED <<docs, nextId, blobs, files, f2d, index>>

\* ------------------------------------------------------------------ run_v2
\* the ids an external caller of run_v2 names: documents of its own, not rows
\* of the registry
ExtIds == {0}

ExtBatches == UNION {[1..n -> ExtIds] : n \in 1..MaxBatch}

RunV2Next(p, calls) ==
    IF proc[p].i < Len(proc[p].ids)
    THEN [proc EXCEPT ![p].i = proc[p].i + 1, ![p].pc = "rv_es", ![p].calls = calls]
    ELSE [proc EXCEPT ![p] = [Idle EXCEPT !.op = "run_v2", !.pc = "done", !.ret = "ok",
                                          !.ids = proc[p].ids, !.tenant = proc[p].tenant,
                                          !.req = proc[p].req,
                                          !.calls = calls, !.pre = proc[p].pre]]

\* JSON values of the numeric fields: 3, "3", 2.5, "2.5", "x"; a float is
\* <<"float", whole, tenths>>
Absent == <<"absent">>
Int3 == <<"int", 3>>
Str3 == <<"str", "3">>
Float25 == <<"float", 2, 5>>
Str25 == <<"str", "2.5">>
StrX == <<"str", "x">>

\* Python int(v): a float is truncated, a string must be a decimal integer
ToInt(v) ==
    IF v[1] = "int" THEN v
    ELSE IF v[1] = "float" THEN <<"int", v[2]>>
    ELSE IF v = Str3 THEN <<"int", 3>>
    ELSE <<"error">>

\* Python float(v)
ToFloat(v) ==
    IF v[1] = "float" THEN v
    ELSE IF v[1] = "int" THEN <<"float", v[2], 0>>
    ELSE IF v = Str3 THEN <<"float", 3, 0>>
    ELSE IF v = Str25 THEN <<"float", 2, 5>>
    ELSE <<"error">>

\* a field is converted when its key is present
IntIfPresent(v) == IF v = Absent THEN Absent ELSE ToInt(v)

FloatIfPresent(v) == IF v = Absent THEN Absent ELSE ToFloat(v)

\* the document has no "parser_config"; the parser_config has no "raptor"
NoParserConfig == [absent |-> TRUE]
NoRaptor == [absent |-> TRUE]

\* the conversions of run_v2; any of them may raise
NormalizeRaptor(r) ==
    IF r = NoRaptor THEN r
    ELSE [max_cluster |-> IntIfPresent(r.max_cluster),
          max_token |-> IntIfPresent(r.max_token),
          random_seed |-> IntIfPresent(r.random_seed),
          threshold |-> FloatIfPresent(r.threshold)]

\* run_v2 handing the parser_config on as it came
KeepParserConfig(c) == c

NormalizeParserConfig(c) ==
    IF c = NoParserConfig THEN c
    ELSE [chunk_token_num |-> IntIfPresent(c.chunk_token_num),
          raptor |-> NormalizeRaptor(c.raptor)]

\* one of the conversions raised
Raised(c) ==
    /\ c # NoParserConfig
    /\ \/ c.chunk_token_num = <<"error">>
       \/ /\ c.raptor # NoRaptor
          /\ <<"error">> \in {c.raptor.max_cluster, c.raptor.max_token,
                               c.raptor.random_seed, c.raptor.threshold}

\* the request has no "language"
NoLanguage == "none"

StartRunV2(p, sched, batches, cfgs, langs) ==
    /\ CanStart(p, sched)
    /\ \E ids \in batches, t \in Tenants, l \in langs :
         /\ Cardinality(FreeJobs) >= Len(ids)
         /\ \E cs \in [1..Len(ids) -> cfgs] :
              proc' = [proc EXCEPT ![p] = [Idle EXCEPT !.op = "run_v2", !.pc = "rv_es",
                                                       !.ids = ids, !.i = 1, !.tenant = t,
                                                       !.req = [language |-> l, configs |-> cs],
                                                       !.pre = Snapshot]]
    /\ UNCHANGED <<docs, nextId, blobs, files, f2d, index, tasks, jobs>>

RunV2DeleteIndex(p) ==
    /\ proc[p].pc = "rv_es"
    /\ index' = DeleteByDocId(index, proc[p].tenant, Cur(p))
    /\ proc' = [proc EXCEPT ![p].pc = "rv_queue", ![p].calls = Log(p, <<"es_delete", Cur(p)>>)]
    /\ UNCHANGED <<docs, nextId, blobs, files, f2d, tasks, jobs>>

\* queue_tasks_v2(new_doc): the job is named by its url, there is no blob
QueueTasksV2(j, d, tenant, cfg, lang) ==
    jobs' = [jobs EXCEPT ![j] = [st |-> "queued", kind |-> "v2", doc |-> d,
                                 tenant |-> tenant, addr |-> NoAddr, n |-> 0, toks |-> 0,
                                 cfg |-> cfg, lang |-> lang]]

\* the conversions, new_doc with language "English", and queue_tasks_v2
RunV2Queue(p) ==
    /\ proc[p].pc = "rv_queue"
    /\ FreeJobs # {}
    /\ LET cfg == NormalizeParserConfig(proc[p].req.configs[proc[p].i]) IN
         IF Raised(cfg)
         THEN /\ proc' = Finish(p, "exception")
              /\ UNCHANGED jobs
         ELSE /\ QueueTasksV2(NewJob, Cur(p), proc[p].tenant, cfg, "English")
              /\ proc' = RunV2Next(p, Log(p, <<"enqueue", Cur(p), NewJob>>))
    /\ UNCHANGED <<docs, nextId, blobs, files, f2d, index, tasks>>

\* ------------------------------------------------------------------ rename
\* str.lower() on the extensions in use
Lower(ext) == IF ext = "PDF" THEN "pdf" ELSE ext

\* pathlib.Path(name.lower()).suffix
Suffix(nm) == Lower(nm[3])

RenameNames == {<<"a", 0, "pdf">>, <<"b", 0, "pdf">>, <<"a", 0, "docx">>, <<"b", 0, "PDF">>}

ExtensionChanged == "The extension of file can't be changed"

StartRename(p, sched) ==
    /\ CanStart(p, sched)
    /\ \E d \in DocIds, nm \in RenameNames :
         proc' = [proc EXCEPT ![p] = [Idle EXCEPT !.op = "rename", !.pc = "rn_get",
                                                  !.ids = <<d>>, !.i = 1, !.name = nm,
                                                  !.pre = IF sched = "conc" THEN <<>> ELSE Snapshot]]
    /\ UNCHANGED <<docs, nextId, blobs, files, f2d, index, tasks, jobs>>

RenameGet(p) ==
    /\ proc[p].pc = "rn_get"
    /\ proc' = IF ~Exists(Cur(p)) THEN Finish(p, "Document not found!")
               ELSE IF Suffix(proc[p].name) # Suffix(docs[Cur(p)].name)
                    THEN Finish(p, ExtensionChanged)
               ELSE [proc EXCEPT ![p].pc = "rn_query", ![p].kb = docs[Cur(p)].kb]
    /\ UNCHANGED <<docs, nextId, blobs, files, f2d, index, tasks, jobs>>

\* every row the query returns has the requested name, the renamed row included
RenameQuery(p) ==
    /\ proc[p].pc = "rn_query"
    /\ proc' = IF QueryByName(proc[p].name, proc[p].kb) # {}
               THEN Finish(p, "Duplicated document name in the same knowledgebase.")
               ELSE [proc EXCEPT ![p].pc = "rn_update"]
    /\ UNCHANGED <<docs, nextId, blobs, files, f2d, index, tasks, jobs>>

RenameUpdate(p) ==
    /\ proc[p].pc = "rn_update"
    /\ IF ~Exists(Cur(p))
       THEN /\ proc' = Finish(p, "Database error (Document rename)!")
            /\ UNCHANGED docs
       ELSE /\ docs' = [docs EXCEPT ![Cur(p)].name = proc[p].name]
            /\ proc' = [proc EXCEPT ![p].pc = "rn_f2d"]
    /\ UNCHANGED <<nextId, blobs, files, f2d, index, tasks, jobs>>

\* informs = File2DocumentService.get_by_document_id(doc_id)
RenameInforms(p) ==
    /\ proc[p].pc = "rn_f2d"
    /\ LET informs == {m \in f2d : m[2] = Cur(p)} IN
         proc' = IF informs = {} THEN Finish(p, "ok")
                 ELSE [proc EXCEPT ![p].pc = "rn_file",
                                   ![p].did = (CHOOSE m \in informs : TRUE)[1]]
    /\ UNCHANGED <<docs, nextId, blobs, files, f2d, index, tasks, jobs>>

\* e, file = FileService.get_by_id(file_id); file.id raises when the row is gone
RenameFileGet(p) ==
    /\ proc[p].pc = "rn_file"
    /\ proc' = IF \E f \in files : f.id = proc[p].did
               THEN [proc EXCEPT ![p].pc = "rn_fupd"]
               ELSE Finish(p, "exception")
    /\ UNCHANGED <<docs, nextId, blobs, files, f2d, index, tasks, jobs>>

\* rename without the update of the File row
RenameFileSkip(p) ==
    /\ proc[p].pc = "rn_fupd"
    /\ proc' = Finish(p, "ok")
    /\ UNCHANGED <<docs, nextId, blobs, files, f2d, index, tasks, jobs>>

RenameFileUpdate(p) ==
    /\ proc[p].pc = "rn_fupd"
    /\ files' = {IF f.id = proc[p].did THEN [f EXCEPT !.name = proc[p].name] ELSE f : f \in files}
    /\ proc' = Finish(p, "ok")
    /\ UNCHANGED <<docs, nextId, blobs, f2d, index, tasks, jobs>>

\* ----------------------------------------------------------- change_parser
Parsers == {"naive", "qa"}

PresentationExts == {"ppt", "pptx", "pages"}

\* the request carries no "parser_config"
NoConfig == "absent"

StartChangeParser(p, sched, cfgs) ==
    /\ CanStart(p, sched)
    /\ \E d \in DocIds, parser \in Parsers, cfg \in cfgs :
         proc' = [proc EXCEPT ![p] = [Idle EXCEPT !.op = "change_parser", !.pc = "cp_get",
                                                  !.ids = <<d>>, !.i = 1, !.val = parser,
                                                  !.req = cfg, !.pre = Snapshot]]
    /\ UNCHANGED <<docs, nextId, blobs, files, f2d, index, tasks, jobs>>

\* change_parser without the return of an unchanged parser and parser_config
ChangeParserGetAlways(p) ==
    /\ proc[p].pc = "cp_get"
    /\ proc' = IF ~Exists(Cur(p)) THEN Finish(p, "Document not found!")
               ELSE IF docs[Cur(p)].type = "visual" \/ docs[Cur(p)].name[3] \in PresentationExts
                    THEN Finish(p, "Not supported yet!")
               ELSE [proc EXCEPT ![p].pc = "cp_update", ![p].doc = docs[Cur(p)]]
    /\ UNCHANGED <<docs, nextId, blobs, files, f2d, index, tasks, jobs>>

\* change_parser without the test of the document's type and name
ChangeParserGetAnyType(p) ==
    /\ proc[p].pc = "cp_get"
    /\ proc' = IF ~Exists(Cur(p)) THEN Finish(p, "Document not found!")
               ELSE IF /\ Lower(docs[Cur(p)].parser) = Lower(proc[p].val)
                       /\ proc[p].req \in {NoConfig, docs[Cur(p)].cfg}
                    THEN Finish(p, "ok")
               ELSE [proc EXCEPT ![p].pc = "cp_update", ![p].doc = docs[Cur(p)]]
    /\ UNCHANGED <<docs, nextId, blobs, files, f2d, index, tasks, jobs>>

ChangeParserGet(p) ==
    /\ proc[p].pc = "cp_get"
    /\ proc' = IF ~Exists(Cur(p)) THEN Finish(p, "Document not found!")
               ELSE IF /\ Lower(docs[Cur(p)].parser) = Lower(proc[p].val)
                       /\ proc[p].req \in {NoConfig, docs[Cur(p)].cfg}
                    THEN Finish(p, "ok")
               ELSE IF docs[Cur(p)].type = "visual" \/ docs[Cur(p)].name[3] \in PresentationExts
                    THEN Finish(p, "Not supported yet!")
               ELSE [proc EXCEPT ![p].pc = "cp_update", ![p].doc = docs[Cur(p)]]
    /\ UNCHANGED <<docs, nextId, blobs, files, f2d, index, tasks, jobs>>

ChangeParserUpdate(p) ==
    /\ proc[p].pc = "cp_update"
    /\ IF ~Exists(Cur(p))
       THEN /\ proc' = Finish(p, "Document not found!")
            /\ UNCHANGED docs
       ELSE /\ docs' = [docs EXCEPT ![Cur(p)].parser = proc[p].val, ![Cur(p)].progress = 0,
                                    ![Cur(p)].run = UNSTART]
            /\ proc' = IF proc[p].req # NoConfig THEN [proc EXCEPT ![p].pc = "cp_config"]
                       ELSE IF proc[p].doc.tok > 0 THEN [proc EXCEPT ![p].pc = "cp_incr"]
                       ELSE Finish(p, "ok")
    /\ UNCHANGED <<nextId, blobs, files, f2d, index, tasks, jobs>>

\* DocumentService.update_parser_config(doc.id, req["parser_config"]); it raises
\* when the row is gone
ChangeParserConfig(p) ==
    /\ proc[p].pc = "cp_config"
    /\ IF ~Exists(Cur(p))
       THEN /\ proc' = Finish(p, "exception")
            /\ UNCHANGED docs
       ELSE /\ docs' = [docs EXCEPT ![Cur(p)].cfg = proc[p].req]
            /\ proc' = IF proc[p].doc.tok > 0 THEN [proc EXCEPT ![p].pc = "cp_incr"]
                       ELSE Finish(p, "ok")
    /\ UNCHANGED <<nextId, blobs, files, f2d, index, tasks, jobs>>

\* DocumentService.increment_chunk_num: an atomic signed delta on the row
IncrementChunkNum(d, tok, chunk, dur) ==
    [docs EXCEPT ![d].tok = @ + tok, ![d].chunk = @ + chunk, ![d].dur = @ + dur]

ChangeParserDecrement(p) ==
    /\ proc[p].pc = "cp_incr"
    /\ IF ~Exists(Cur(p))
       THEN /\ proc' = Finish(p, "Document not found!")
            /\ UNCHANGED docs
       ELSE /\ docs' = IncrementChunkNum(Cur(p), 0 - proc[p].doc.tok, 0 - proc[p].doc.chunk,
                                         0 - proc[p].doc.dur)
            /\ proc' = [proc EXCEPT ![p].pc = "cp_tenant"]
    /\ UNCHANGED <<nextId, blobs, files, f2d, index, tasks, jobs>>

ChangeParserTenant(p) ==
    /\ proc[p].pc = "cp_tenant"
    /\ proc' = IF GetTenantId(Cur(p)) = NoTenant
               THEN Finish(p, "Tenant not found!")
               ELSE [proc EXCEPT ![p].pc = "cp_es", ![p].tenant = GetTenantId(Cur(p))]
    /\ UNCHANGED <<docs, nextId, blobs, files, f2d, index, tasks, jobs>>

\* change_parser with its deleteByQuery call left out
ChangeParserSkipDeleteIndex(p) ==
    /\ proc[p].pc = "cp_es"
    /\ proc' = Finish(p, "ok")
    /\ UNCHANGED <<docs, nextId, blobs, files, f2d, index, tasks, jobs>>

ChangeParserDeleteIndex(p) ==
    /\ proc[p].pc = "cp_es"
    /\ index' = DeleteByDocId(index, proc[p].tenant, Cur(p))
    /\ proc' = Finish(p, "ok")
    /\ UNCHANGED <<docs, nextId, blobs, files, f2d, tasks, jobs>>

\* ----------------------------------------------------------- change_status
StatusValues == {"0", "1"}

\* str(req["status"]) of a request whose status is neither 0 nor 1
BadStatus == "2"

\* the response built at 272-275 for a status outside StatusValues
StatusArgumentError == "\"Status\" must be either 0 or 1!"

\* the test at 271 builds StatusArgumentError for a bad value and does not
\* return it: the handler goes on to get_by_id with any value
StartChangeStatus(p, sched, vals) ==
    /\ CanStart(p, sched)
    /\ \E d \in DocIds, v \in vals :
         proc' = [proc EXCEPT ![p] = [Idle EXCEPT !.op = "change_status", !.pc = "cs_get",
                                                  !.ids = <<d>>, !.i = 1, !.val = v,
                                                  !.pre = Snapshot]]
    /\ UNCHANGED <<docs, nextId, blobs, files, f2d, index, tasks, jobs>>

ChangeStatusGet(p) ==
    /\ proc[p].pc = "cs_get"
    /\ proc' = IF ~Exists(Cur(p)) THEN Finish(p, "Document not found!")
               ELSE [proc EXCEPT ![p].pc = "cs_update", ![p].kb = docs[Cur(p)].kb]
    /\ UNCHANGED <<docs, nextId, blobs, files, f2d, index, tasks, jobs>>

ChangeStatusUpdate(p) ==
    /\ proc[p].pc = "cs_update"
    /\ IF ~Exists(Cur(p))
       THEN /\ proc' = Finish(p, "Database error (Document update)!")
            /\ UNCHANGED docs
       ELSE /\ docs' = [docs EXCEPT ![Cur(p)].status = proc[p].val]
            /\ proc' = [proc EXCEPT ![p].pc = "cs_es"]
    /\ UNCHANGED <<nextId, blobs, files, f2d, index, tasks, jobs>>

\* change_status with the script of the other branch
ChangeStatusPatchSwapped(p) ==
    /\ proc[p].pc = "cs_es"
    /\ index' = PatchByDocId(index, KbTenant(proc[p].kb), Cur(p),
                             IF proc[p].val = "0" THEN 1 ELSE 0)
    /\ proc' = Finish(p, "ok")
    /\ UNCHANGED <<docs, nextId, blobs, files, f2d, tasks, jobs>>

ChangeStatusPatch(p) ==
    /\ proc[p].pc = "cs_es"
    /\ index' = PatchByDocId(index, KbTenant(proc[p].kb), Cur(p),
                             IF proc[p].val = "0" THEN 0 ELSE 1)
    /\ proc' = Finish(p, "ok")
    /\ UNCHANGED <<docs, nextId, blobs, files, f2d, tasks, jobs>>

\* ------------------------------------------------------------------ worker
\* a worker may step: under the sequential schedule only between requests,
\* one pass at a time
WorkerMay(j, sched) ==
    sched = "seq" => Active = {} /\ Working \subseteq {j}

\* a worker takes a job off the queue; a job whose Task rows were cleared is stale
WorkerTake(j, sched) ==
    /\ jobs[j].st = "queued"
    /\ WorkerMay(j, sched)
    /\ jobs' = IF jobs[j].kind = "run" /\ <<jobs[j].doc, j>> \notin tasks
               THEN [jobs EXCEPT ![j] = [st |-> "done"]]
               ELSE [jobs EXCEPT ![j].st = "working"]
    /\ UNCHANGED <<docs, nextId, blobs, files, f2d, index, tasks, proc>>

\* the worker inserts one parsed chunk of its pass into the tenant's index
WorkerWrite(j, sched) ==
    /\ jobs[j].st = "working"
    /\ WorkerMay(j, sched)
    /\ jobs[j].n < MaxChunks
    /\ index' = index \cup {[idx |-> IndexName(jobs[j].tenant), doc |-> jobs[j].doc,
                             pass |-> j, cid |-> jobs[j].n + 1, tok |-> ChunkTok, avail |-> 1]}
    /\ jobs' = [jobs EXCEPT ![j].n = @ + 1, ![j].toks = @ + ChunkTok]
    /\ UNCHANGED <<docs, nextId, blobs, files, f2d, tasks, proc>>

\* the pass completes: the matching positive delta goes to the row's counters
WorkerDone(j, sched) ==
    /\ jobs[j].st = "working"
    /\ WorkerMay(j, sched)
    /\ jobs[j].n >= 1
    /\ docs' = IF jobs[j].kind = "run" /\ Exists(jobs[j].doc)
               THEN [IncrementChunkNum(jobs[j].doc, jobs[j].toks, jobs[j].n, 1)
                        EXCEPT ![jobs[j].doc].run = DONE, ![jobs[j].doc].progress = 1]
               ELSE docs
    /\ tasks' = tasks \ {<<jobs[j].doc, j>>}
    /\ jobs' = [jobs EXCEPT ![j] = [st |-> "done"]]
    /\ UNCHANGED <<nextId, blobs, files, f2d, index, proc>>

\* ----------------------------------------------------- a store call raises
RaisePcs ==
    {"cr_query", "cr_insert", "wc_name", "wc_probe", "wc_put", "wc_insert", "wc_file",
     "rm_get", "rm_tenant", "rm_addr", "rm_remove", "rm_f2d", "rm_f2ddel", "rm_blob",
     "run_tenant", "run_es", "run_task", "run_get", "run_addr", "run_queue",
     "rv_es", "rv_queue", "r2_es", "cp_get", "cp_update", "cp_config", "cp_incr", "cp_tenant", "cp_es",
     "cs_get", "cs_update", "cs_es",
     "rn_get", "rn_query", "rn_update", "rn_f2d", "rn_file", "rn_fupd"}

Raise(p) ==
    /\ proc[p].pc \in RaisePcs
    /\ proc' = IF proc[p].op = "rm"
               THEN [RmNext(p, proc[p].errs \cup {Cur(p)}) EXCEPT ![p].calls = Log(p, <<"raise">>)]
               ELSE IF proc[p].op = "rm_v2"
               THEN [RmV2Next(p, proc[p].errs \cup {Cur(p)}) EXCEPT ![p].calls = Log(p, <<"raise">>)]
               ELSE Finish(p, "exception")
    /\ UNCHANGED <<docs, nextId, blobs, files, f2d, index, tasks, jobs>>

\* ------------------------------------------------------------------ specs
NextStorage ==
    \E p \in Procs :
        \/ StartWebCrawl(p, "conc") \/ WebCrawlName(p) \/ WebCrawlProbe(p)
        \/ WebCrawlPut(p) \/ WebCrawlInsert(p) \/ WebCrawlFile(p)
        \/ StartRm(p, "conc", 1) \/ RmGet(p) \/ RmTenant(p) \/ RmAddr(p) \/ RmRemove(p)
        \/ RmFileDelete(p) \/ RmMappingDelete(p) \/ RmBlob(p)
        \/ Raise(p) \/ Return(p)

SpecStorage == Init /\ [][NextStorage]_vars

\* requests one at a time (one handler slot), worker passes between them
SeqProcs == {1}

APdf == <<"a", 0, "pdf">>

NextRm ==
    \E p \in SeqProcs :
        \/ StartCreate(p, "seq", Kbs, CreateNames) \/ CreateQuery(p) \/ CreateInsert(p)
        \/ StartWebCrawl(p, "seq") \/ WebCrawlName(p) \/ WebCrawlProbe(p)
        \/ WebCrawlPut(p) \/ WebCrawlInsert(p) \/ WebCrawlFile(p)
        \/ StartRm(p, "seq", MaxBatch) \/ RmGet(p) \/ RmTenant(p) \/ RmAddr(p) \/ RmRemove(p)
        \/ RmFileDelete(p) \/ RmMappingDelete(p) \/ RmBlob(p)
        \/ Raise(p) \/ Return(p)

SpecRm == Init /\ [][NextRm]_vars

Run(p, sched, max) ==
    \/ StartRun(p, sched, max) \/ RunTenant(p) \/ RunDeleteIndex(p) \/ RunDeleteTasks(p)
    \/ RunGet(p) \/ RunAddr(p) \/ RunQueue(p)

Worker(sched) ==
    \E j \in JobIds : WorkerTake(j, sched) \/ WorkerWrite(j, sched) \/ WorkerDone(j, sched)

Next ==
    \/ \E p \in SeqProcs :
        \/ StartWebCrawl(p, "seq") \/ WebCrawlName(p) \/ WebCrawlProbe(p)
        \/ WebCrawlPut(p) \/ WebCrawlInsert(p) \/ WebCrawlFile(p)
        \/ Run(p, "seq", MaxBatch)
        \/ StartRunV2(p, "seq", ExtBatches, {NoParserConfig}, {NoLanguage}) \/ RunV2DeleteIndex(p) \/ RunV2Queue(p)
        \/ Raise(p) \/ Return(p)
    \/ Worker("seq")

Spec == Init /\ [][Next]_vars

NextParser ==
    \/ \E p \in SeqProcs :
        \/ StartCreate(p, "seq", {"k1"}, CreateNames) \/ CreateQuery(p) \/ CreateInsert(p)
        \/ Run(p, "seq", 1)
        \/ StartChangeParser(p, "seq", {NoConfig}) \/ ChangeParserGet(p) \/ ChangeParserUpdate(p)
        \/ ChangeParserDecrement(p) \/ ChangeParserTenant(p) \/ ChangeParserDeleteIndex(p)
        \/ Raise(p) \/ Return(p)
    \/ Worker("seq")

SpecParser == Init /\ [][NextParser]_vars

NextStatus ==
    \/ \E p \in SeqProcs :
        \/ StartCreate(p, "seq", {"k1"}, CreateNames) \/ CreateQuery(p) \/ CreateInsert(p)
        \/ Run(p, "seq", 1)
        \/ StartChangeStatus(p, "seq", StatusValues) \/ ChangeStatusGet(p) \/ ChangeStatusUpdate(p)
        \/ ChangeStatusPatch(p)
        \/ Raise(p) \/ Return(p)
    \/ Worker("seq")

SpecStatus == Init /\ [][NextStatus]_vars

\* change_status with any status value on placeholders and parsed documents
NextStatusValue ==
    \/ \E p \in SeqProcs :
        \/ StartCreate(p, "seq", {"k1"}, {APdf}) \/ CreateQuery(p) \/ CreateInsert(p)
        \/ Run(p, "seq", 1)
        \/ StartChangeStatus(p, "seq", StatusValues \cup {BadStatus})
        \/ ChangeStatusGet(p) \/ ChangeStatusUpdate(p) \/ ChangeStatusPatch(p)
        \/ Raise(p) \/ Return(p)
    \/ Worker("seq")

SpecStatusValue == Init /\ [][NextStatusValue]_vars

\* change_parser on placeholders (one named as a presentation) and parsed
\* documents, with and without a parser_config in the request
ParserNames == {<<"a", 0, "pdf">>, <<"s", 0, "ppt">>}

ParserConfigs == {NoConfig, "cfg1", "cfg3"}

NextParserConfig ==
    \/ \E p \in SeqProcs :
        \/ StartCreate(p, "seq", {"k1"}, ParserNames) \/ CreateQuery(p) \/ CreateInsert(p)
        \/ Run(p, "seq", 1)
        \/ StartChangeParser(p, "seq", ParserConfigs) \/ ChangeParserGet(p)
        \/ ChangeParserUpdate(p) \/ ChangeParserConfig(p) \/ ChangeParserDecrement(p)
        \/ ChangeParserTenant(p) \/ ChangeParserDeleteIndex(p)
        \/ Raise(p) \/ Return(p)
    \/ Worker("seq")

SpecParserConfig == Init /\ [][NextParserConfig]_vars

\* change_parser over created, uploaded and parsed documents when every store
\* call succeeds: pictures come from upload, presentations from create
UnsupportedConfigs == {NoConfig, "cfg3"}

NextUnsupported ==
    \/ \E p \in SeqProcs :
        \/ StartCreate(p, "seq", {"k1"}, ParserNames) \/ CreateQuery(p) \/ CreateInsert(p)
        \/ Upload(p, "seq")
        \/ Run(p, "seq", 1)
        \/ StartChangeParser(p, "seq", UnsupportedConfigs) \/ ChangeParserGet(p)
        \/ ChangeParserUpdate(p) \/ ChangeParserConfig(p) \/ ChangeParserDecrement(p)
        \/ ChangeParserTenant(p) \/ ChangeParserDeleteIndex(p)
        \/ Return(p)
    \/ Worker("seq")

SpecUnsupported == Init /\ [][NextUnsupported]_vars

\* run_v2 and rm_v2 naming documents of the registry, beside the handlers that
\* resolve the tenant themselves
NextV2 ==
    \/ \E p \in SeqProcs :
        \/ StartCreate(p, "seq", Kbs, {APdf}) \/ CreateQuery(p) \/ CreateInsert(p)
        \/ Run(p, "seq", 1)
        \/ StartRunV2(p, "seq", Batches(1), {NoParserConfig}, {NoLanguage}) \/ RunV2DeleteIndex(p) \/ RunV2Queue(p)
        \/ StartRmV2(p, "seq", Batches(MaxBatch)) \/ RmV2DeleteIndex(p)
        \/ StartChangeStatus(p, "seq", StatusValues) \/ ChangeStatusGet(p) \/ ChangeStatusUpdate(p)
        \/ ChangeStatusPatch(p)
        \/ Raise(p) \/ Return(p)
    \/ Worker("seq")

SpecV2 == Init /\ [][NextV2]_vars

\* rm_v2 over the index entries parse passes have left in both tenants' indexes
NextRmV2 ==
    \/ \E p \in SeqProcs :
        \/ StartCreate(p, "seq", Kbs, {APdf}) \/ CreateQuery(p) \/ CreateInsert(p)
        \/ Run(p, "seq", 1)
        \/ StartRmV2(p, "seq", Batches(MaxBatch)) \/ RmV2DeleteIndex(p)
        \/ Raise(p) \/ Return(p)
    \/ Worker("seq")

SpecRmV2 == Init /\ [][NextRmV2]_vars

\* the parser_configs of the documents of a run_v2 request
RaptorConfigs ==
    {[max_cluster |-> Str3, max_token |-> Int3, random_seed |-> Float25, threshold |-> Str25],
     [max_cluster |-> Absent, max_token |-> Absent, random_seed |-> Str3, threshold |-> Int3],
     [max_cluster |-> Str25, max_token |-> Absent, random_seed |-> Absent, threshold |-> Absent],
     [max_cluster |-> Absent, max_token |-> Absent, random_seed |-> Absent, threshold |-> StrX]}

V2Configs ==
    {NoParserConfig,
     [chunk_token_num |-> Str3, raptor |-> NoRaptor],
     [chunk_token_num |-> StrX, raptor |-> NoRaptor]}
    \cup {[chunk_token_num |-> Float25, raptor |-> r] : r \in RaptorConfigs}

NextRunV2 ==
    \E p \in SeqProcs :
        \/ StartRunV2(p, "seq", ExtBatches, V2Configs, {NoLanguage, "Chinese"})
        \/ RunV2DeleteIndex(p) \/ RunV2Queue(p)
        \/ Raise(p) \/ Return(p)

SpecRunV2 == Init /\ [][NextRunV2]_vars

Rename(p, sched) ==
    \/ StartRename(p, sched) \/ RenameGet(p) \/ RenameQuery(p) \/ RenameUpdate(p)
    \/ RenameInforms(p) \/ RenameFileGet(p) \/ RenameFileUpdate(p)

NextRename ==
    \E p \in SeqProcs :
        \/ StartCreate(p, "seq", Kbs, CreateNames) \/ CreateQuery(p) \/ CreateInsert(p)
        \/ StartWebCrawl(p, "seq") \/ WebCrawlName(p) \/ WebCrawlProbe(p)
        \/ WebCrawlPut(p) \/ WebCrawlInsert(p) \/ WebCrawlFile(p)
        \/ Rename(p, "seq")
        \/ Raise(p) \/ Return(p)

SpecRename == Init /\ [][NextRename]_vars

\* create, web_crawl and rename requests on one knowledge base, interleaved
\* call by call
NextNames ==
    \E p \in Procs :
        \/ StartCreate(p, "conc", {"k1"}, CreateNames) \/ CreateQuery(p) \/ CreateInsert(p)
        \/ StartWebCrawl(p, "conc") \/ WebCrawlName(p) \/ WebCrawlProbe(p)
        \/ WebCrawlPut(p) \/ WebCrawlInsert(p) \/ WebCrawlFile(p)
        \/ Rename(p, "conc")
        \/ Raise(p) \/ Return(p)

SpecNames == Init /\ [][NextNames]_vars

\* requests one at a time, the workers running freely beside them
NextWorker ==
    \/ \E p \in SeqProcs :
        \/ StartCreate(p, "worker", Kbs, {APdf}) \/ CreateQuery(p) \/ CreateInsert(p)
        \/ Run(p, "worker", 1)
        \/ StartChangeParser(p, "worker", {NoConfig}) \/ ChangeParserGet(p) \/ ChangeParserUpdate(p)
        \/ ChangeParserDecrement(p) \/ ChangeParserTenant(p) \/ ChangeParserDeleteIndex(p)
        \/ Raise(p) \/ Return(p)
    \/ Worker("worker")

SpecWorker == Init /\ [][NextWorker]_vars

\* ================================================================= claims
IsEnqueue(c) == c[1] = "enqueue"

\* the enqueue calls a handler has logged, in order
Enqueued(p) == SelectSeq(proc[p].calls, IsEnqueue)

\* the position of the last enqueue before position k of a call log (0: none)
PrevEnqueue(c, k) ==
    LET E == {m \in 1..(k - 1) : c[m][1] = "enqueue"} IN
      IF E = {} THEN 0 ELSE CHOOSE m \in E : \A n \in E : n <= m

RunSucceeded(p, trigger) ==
    /\ proc[p].op = "run" /\ proc[p].pc = "done"
    /\ proc[p].ret = "ok" /\ proc[p].val = trigger

\* C1: every job run(RUNNING) or run_v2 enqueues for a document comes after the
\* deletion of that document's index entries in the same pass of the loop (for
\* run, after the deletion of its Task rows too); right after the enqueue the
\* tenant index holds no entry of the document, the Task rows of the document
\* are those of the new job and the job of run carries the address (kb_id,
\* location) of the row; a successful request enqueued one job per listed id.
C1_EnqueueAfterInvalidation ==
    \A p \in Procs : proc[p].op \in {"run", "run_v2"} =>
      LET c == proc[p].calls
          n == Len(c)
      IN
        /\ \A k \in 1..n : c[k][1] = "enqueue" =>
             /\ \E m \in (PrevEnqueue(c, k) + 1)..(k - 1) : c[m] = <<"es_delete", c[k][2]>>
             /\ proc[p].op = "run" =>
                  \E m \in (PrevEnqueue(c, k) + 1)..(k - 1) : c[m] = <<"task_delete", c[k][2]>>
        /\ (n > 0 /\ c[n][1] = "enqueue") =>
             LET d == c[n][2]
                 j == c[n][3]
             IN
               /\ jobs[j].st = "queued" /\ jobs[j].doc = d
               /\ {e \in index : e.doc = d /\ e.idx = IndexName(jobs[j].tenant)} = {}
               /\ proc[p].op = "run" =>
                    /\ {t \in tasks : t[1] = d} = {<<d, j>>}
                    /\ Exists(d) /\ jobs[j].addr = <<docs[d].kb, docs[d].loc>>
        /\ (proc[p].pc = "done" /\ proc[p].ret = "ok"
               /\ (proc[p].op = "run" => proc[p].val = RUNNING)) =>
             /\ Len(Enqueued(p)) = Len(proc[p].ids)
             /\ \A i \in 1..Len(proc[p].ids) : Enqueued(p)[i][2] = proc[p].ids[i]

\* a run(RUNNING) of a crawled document that had index entries has returned
C1_Witness ==
    \E p \in Procs :
      /\ RunSucceeded(p, RUNNING)
      /\ EntriesOf(proc[p].pre.index, proc[p].ids[1]) # {}
      /\ Exists(proc[p].ids[1]) /\ docs[proc[p].ids[1]].loc # NoLoc

ChangeParserSucceeded(p) ==
    /\ proc[p].op = "change_parser" /\ proc[p].pc = "done" /\ proc[p].ret = "ok"

\* the case of C2: the request names a row with another parser, of a supported
\* type, with a nonzero counter and entries in the index
C2_Case(p) ==
    LET d == proc[p].ids[1]
        was == proc[p].pre.docs[d]
    IN
      /\ ChangeParserSucceeded(p)
      /\ was # NoDoc
      /\ was.parser # proc[p].val
      /\ was.type # "visual" /\ was.name[3] \notin PresentationExts
      /\ was.tok # 0 \/ was.chunk # 0 \/ was.dur # 0
      /\ EntriesOf(proc[p].pre.index, d) # {}

\* C2: after change_parser to another parser on a supported document with a
\* nonzero counter and index entries, the row has the new parser, status
\* UNSTART, progress 0, all three counters 0, the index holds no entry of the
\* document, and no job has been queued meanwhile.
C2_ParserChangeInvalidates ==
    \A p \in Procs : C2_Case(p) =>
      LET d == proc[p].ids[1] IN
        /\ Exists(d)
        /\ docs[d].parser = proc[p].val
        /\ docs[d].run = UNSTART /\ docs[d].progress = 0
        /\ docs[d].tok = 0 /\ docs[d].chunk = 0 /\ docs[d].dur = 0
        /\ EntriesOf(index, d) = {}
        /\ jobs = proc[p].pre.jobs

C2_Witness == \E p \in Procs : C2_Case(p)

\* C3: when rm returns, every id of the batch that named a document when the
\* request arrived has been removed or is reported among the failures.
C3_BatchBestEffort ==
    \A p \in Procs : (proc[p].op = "rm" /\ proc[p].pc = "done") =>
      \A k \in 1..Len(proc[p].ids) :
        LET d == proc[p].ids[k] IN
          proc[p].pre.docs[d] # NoDoc => (~Exists(d) \/ d \in proc[p].errs)

\* C4: when rm returns without a store call having failed, every document
\* whose row it removed has no File2Document mapping, no File row and no blob
\* left.
C4_NothingOutlivesRow ==
    \A p \in Procs :
      (proc[p].op = "rm" /\ proc[p].pc = "done"
         /\ \A k \in 1..Len(proc[p].calls) : proc[p].calls[k] # <<"raise">>) =>
        \A k \in 1..Len(proc[p].ids) :
          LET d == proc[p].ids[k]
              was == proc[p].pre.docs[d]
          IN (was # NoDoc /\ ~Exists(d)) =>
               /\ {m \in f2d : m[2] = d} = {}
               /\ {f \in files : f.id = d} = {}
               /\ <<was.kb, was.loc>> \notin blobs

\* C5: every row of the registry with a location references a blob that exists.
C5_NoDanglingRow ==
    \A d \in DocIds :
      (Exists(d) /\ docs[d].loc # NoLoc) => <<docs[d].kb, docs[d].loc>> \in blobs

\* C6: after run(RUNNING) has returned success, every listed document has
\* status RUNNING.
C6_RunSetsRunning ==
    \A p \in Procs : RunSucceeded(p, RUNNING) =>
      \A k \in 1..Len(proc[p].ids) :
        Exists(proc[p].ids[k]) /\ docs[proc[p].ids[k]].run = RUNNING

\* C7: after run with the cancel trigger has returned success, every listed
\* document has that status, and the index, the Task rows and the queue are as
\* they were when the request arrived.
C7_CancelOnlySetsStatus ==
    \A p \in Procs : RunSucceeded(p, CANCEL) =>
      /\ \A k \in 1..Len(proc[p].ids) :
           Exists(proc[p].ids[k]) /\ docs[proc[p].ids[k]].run = CANCEL
      /\ index = proc[p].pre.index
      /\ tasks = proc[p].pre.tasks
      /\ jobs = proc[p].pre.jobs

InFlight(d) == \E j \in JobIds : jobs[j].st \in {"queued", "working"} /\ jobs[j].doc = d

\* C8: between requests, a document with no parse job in flight has token_num
\* and chunk_num equal to the totals of its chunk entries in the index.
C8_CountersMatchIndex ==
    \A d \in DocIds :
      (Active = {} /\ Exists(d) /\ ~InFlight(d)) =>
        /\ docs[d].tok = SumTok(EntriesOf(index, d))
        /\ docs[d].chunk = Cardinality(EntriesOf(index, d))

\* C9: the index never holds chunks of two parse passes of one document.
C9_NoMixedPasses ==
    \A e1, e2 \in index :
      (e1.idx = e2.idx /\ e1.doc = e2.doc) => e1.pass = e2.pass

ChangeStatusSucceeded(p) ==
    /\ proc[p].op = "change_status" /\ proc[p].pc = "done" /\ proc[p].ret = "ok"
    /\ proc[p].val \in {"0", "1"}

\* a chunk entry without its availability flag
Chunk(e) == [idx |-> e.idx, doc |-> e.doc, pass |-> e.pass, cid |-> e.cid, tok |-> e.tok]

\* C10: after a successful change_status(d, v), v in {0, 1}, the row's flag is
\* v, every chunk entry of d has availability v, and the chunk entries of the
\* index (of d and of every other document) are those the request found.
C10_StatusPatchesInPlace ==
    \A p \in Procs : ChangeStatusSucceeded(p) =>
      LET d == proc[p].ids[1] IN
        /\ Exists(d) /\ docs[d].status = proc[p].val
        /\ \A e \in EntriesOf(index, d) : e.avail = (IF proc[p].val = "0" THEN 0 ELSE 1)
        /\ {Chunk(e) : e \in index} = {Chunk(e) : e \in proc[p].pre.index}
        /\ \A e \in index : e.doc # d => e \in proc[p].pre.index

\* change_status(d, 0) has returned for a document with chunks, beside the
\* chunks of another document
C10_Witness ==
    \E p \in Procs :
      /\ ChangeStatusSucceeded(p) /\ proc[p].val = "0"
      /\ EntriesOf(index, proc[p].ids[1]) # {}
      /\ \E e \in index : e.doc # proc[p].ids[1]

DuplicatedName == "Duplicated document name in the same knowledgebase."

CreateDone(p) == proc[p].op = "create" /\ proc[p].pc = "done"

\* the registry held the requested (kb_id, name) when the request arrived
NameTaken(p) ==
    \E d \in DocIds :
      /\ proc[p].pre.docs[d] # NoDoc
      /\ proc[p].pre.docs[d].kb = proc[p].kb
      /\ proc[p].pre.docs[d].name = proc[p].name

\* C11: a create whose (kb_id, name) the registry already holds fails with the
\* duplicate-name error (unless a store call raised) and leaves the registry
\* as it was; any other create that no store call failed succeeds and adds
\* exactly one row: the virtual type, empty location, size 0, the parser_id
\* and parser_config of the knowledge base; no create writes a blob, a File
\* row or an index entry.
C11_CreateRejectsDuplicate ==
    \A p \in Procs : CreateDone(p) =>
      /\ proc[p].ret \in {"ok", DuplicatedName, "exception"}
      /\ proc[p].ret # "exception" => (NameTaken(p) <=> proc[p].ret = DuplicatedName)
      /\ proc[p].ret # "ok" => docs = proc[p].pre.docs
      /\ proc[p].ret = "ok" =>
           \E d \in DocIds :
             /\ proc[p].pre.docs[d] = NoDoc
             /\ docs = [proc[p].pre.docs EXCEPT ![d] =
                          [kb |-> proc[p].kb, name |-> proc[p].name, type |-> "virtual",
                           parser |-> KbParser(proc[p].kb),
                           cfg |-> KbParserConfig(proc[p].kb), loc |-> NoLoc, size |-> 0,
                           run |-> UNSTART, progress |-> 0, tok |-> 0, chunk |-> 0,
                           dur |-> 0, status |-> "1"]]
      /\ blobs = proc[p].pre.blobs
      /\ files = proc[p].pre.files
      /\ index = proc[p].pre.index

\* a create was refused a name its knowledge base already holds
C11_Witness ==
    \E p \in Procs : CreateDone(p) /\ proc[p].ret = DuplicatedName /\ NameTaken(p)

\* a rename of a document the registry held has returned
RenameDone(p) ==
    /\ proc[p].op = "rename" /\ proc[p].pc = "done"
    /\ proc[p].pre.docs[proc[p].ids[1]] # NoDoc

\* another document of the same knowledge base had the new name
OtherHasName(p) ==
    \E d \in DocIds :
      /\ d # proc[p].ids[1]
      /\ proc[p].pre.docs[d] # NoDoc
      /\ proc[p].pre.docs[d].kb = proc[p].pre.docs[proc[p].ids[1]].kb
      /\ proc[p].pre.docs[d].name = proc[p].name

\* the extension of the new name is that of the current name, letter case aside
SameExtension(p) == Suffix(proc[p].name) = Suffix(proc[p].pre.docs[proc[p].ids[1]].name)

\* C12: a rename to a name with another extension fails with the extension
\* error and leaves the registry and the File rows as they were; a rename that
\* keeps the extension and whose new name no other document of the knowledge
\* base has succeeds (unless a store call raised) and the row has the new name.
C12_ExtensionKept ==
    \A p \in Procs : RenameDone(p) =>
      /\ ~SameExtension(p) =>
           /\ proc[p].ret \in {ExtensionChanged, "exception"}
           /\ docs = proc[p].pre.docs
           /\ files = proc[p].pre.files
      /\ (SameExtension(p) /\ ~OtherHasName(p) /\ proc[p].ret # "exception") =>
           /\ proc[p].ret = "ok"
           /\ docs[proc[p].ids[1]].name = proc[p].name

\* C13: a rename that keeps the extension fails with the duplicate-name error
\* exactly when another document of the same knowledge base has the new name
\* (unless a store call raised), and then no row of the registry has changed.
C13_DuplicateOnlyForOthers ==
    \A p \in Procs : (RenameDone(p) /\ SameExtension(p) /\ proc[p].ret # "exception") =>
      /\ proc[p].ret = DuplicatedName <=> OtherHasName(p)
      /\ proc[p].ret = DuplicatedName => docs = proc[p].pre.docs

RenameSucceeded(p) == RenameDone(p) /\ proc[p].ret = "ok"

\* C14: after a successful rename the File row mapped to the document, if
\* there is one, has the new name, as the document has; every other File row
\* is as the request found it.
C14_FileFollowsRename ==
    \A p \in Procs : RenameSucceeded(p) =>
      LET d == proc[p].ids[1]
          mapped == {m[1] : m \in {x \in f2d : x[2] = d}}
      IN
        /\ docs[d].name = proc[p].name
        /\ \A f \in files : f.id \in mapped => f.name = proc[p].name
        /\ \A i \in mapped : \E f \in files : f.id = i
        /\ {f \in files : f.id \notin mapped} = {f \in proc[p].pre.files : f.id \notin mapped}

\* a document with a File row was renamed to another name
C14_Witness ==
    \E p \in Procs :
      /\ RenameSucceeded(p)
      /\ proc[p].pre.docs[proc[p].ids[1]].name # proc[p].name
      /\ \E m \in f2d : m[2] = proc[p].ids[1]

\* a change_parser of a document the registry held has returned, no store
\* call having raised
ChangeParserDone(p) ==
    /\ proc[p].op = "change_parser" /\ proc[p].pc = "done"
    /\ proc[p].ret # "exception"
    /\ proc[p].pre.docs[proc[p].ids[1]] # NoDoc

\* the request changes neither the parser nor the parser_config of the row
NothingRequested(p) ==
    /\ proc[p].pre.docs[proc[p].ids[1]].parser = proc[p].val
    /\ proc[p].req \in {NoConfig, proc[p].pre.docs[proc[p].ids[1]].cfg}

\* C15: a change_parser whose parser_id is the document's and whose
\* parser_config is absent or the document's returns success and leaves the
\* registry, the index, the Task rows and the queue as the request found them.
C15_SameParserIsNoOp ==
    \A p \in Procs : (ChangeParserDone(p) /\ NothingRequested(p)) =>
      /\ proc[p].ret = "ok"
      /\ docs = proc[p].pre.docs
      /\ index = proc[p].pre.index
      /\ tasks = proc[p].pre.tasks
      /\ jobs = proc[p].pre.jobs

\* a parsed document was asked to take the parser and the parser_config it has
C15_Witness ==
    \E p \in Procs :
      /\ ChangeParserDone(p) /\ NothingRequested(p)
      /\ proc[p].req # NoConfig
      /\ proc[p].pre.docs[proc[p].ids[1]].tok > 0
      /\ EntriesOf(index, proc[p].ids[1]) # {}

\* the document is a picture or is named as a presentation
Unsupported(doc) == doc.type = "visual" \/ doc.name[3] \in PresentationExts

\* C16: a change_parser that changes the parser or the parser_config of a
\* visual document or of one named .ppt, .pptx or .pages fails with the
\* unsupported error and leaves the registry and the index as the request
\* found them.
C16_UnsupportedParserChange ==
    \A p \in Procs :
      (ChangeParserDone(p) /\ ~NothingRequested(p)
         /\ Unsupported(proc[p].pre.docs[proc[p].ids[1]])) =>
        /\ proc[p].ret = "Not supported yet!"
        /\ docs = proc[p].pre.docs
        /\ index = proc[p].pre.index

\* a parsed picture was refused another parser
C16_Witness ==
    \E p \in Procs :
      /\ ChangeParserDone(p) /\ proc[p].ret = "Not supported yet!"
      /\ proc[p].pre.docs[proc[p].ids[1]].type = "visual"
      /\ proc[p].pre.docs[proc[p].ids[1]].parser # proc[p].val
      /\ proc[p].pre.docs[proc[p].ids[1]].tok > 0
      /\ EntriesOf(index, proc[p].ids[1]) # {}

\* no two rows of the registry reference the same blob
DistinctBlobKeys ==
    \A d, e \in DocIds :
      (d # e /\ Exists(d) /\ Exists(e) /\ docs[d].loc # NoLoc /\ docs[d].kb = docs[e].kb)
        => docs[d].loc # docs[e].loc

\* the key a web_crawl is about to write is the filename followed by the
\* fewest underscores the bucket does not hold
FewestUnderscores(p) ==
    /\ <<proc[p].kb, proc[p].loc>> \notin blobs
    /\ \A k \in 0..(proc[p].loc[2] - 1) : <<proc[p].kb, <<proc[p].loc[1], k>>>> \in blobs

\* C17: the blob write of web_crawl goes to the filename followed by the
\* fewest underscores for which the bucket holds no object, so it never
\* overwrites an object, and no two rows reference the same blob key.
C17_CollisionFreeKey ==
    /\ []DistinctBlobKeys
    /\ [][\A p \in Procs :
            (proc[p].pc = "wc_put" /\ proc'[p].pc = "wc_insert") => FewestUnderscores(p)]_vars

\* the index a handler is about to mutate, when it is at such a call
TargetIndex(p) ==
    IF proc[p].pc \in {"run_es", "cp_es", "rv_es", "r2_es"} THEN IndexName(proc[p].tenant)
    ELSE IF proc[p].pc = "cs_es" THEN IndexName(KbTenant(proc[p].kb))
    ELSE "none"

\* C18: whenever run, change_parser, change_status, rm_v2 or run_v2 is about
\* to delete or patch the index entries of a document of the registry, the
\* index it addresses is that of the tenant owning the document.
C18_TenantIsolation ==
    \A p \in Procs :
      (TargetIndex(p) # "none" /\ Exists(Cur(p))) =>
        TargetIndex(p) = IndexName(GetTenantId(Cur(p)))

RmV2Done(p) == proc[p].op = "rm_v2" /\ proc[p].pc = "done"

\* the entries of the tenant index the request names, for the listed ids
Listed(p, idx) ==
    {e \in idx : e.idx = IndexName(proc[p].tenant)
                   /\ \E k \in 1..Len(proc[p].ids) : e.doc = proc[p].ids[k]}

\* C19: an rm_v2 in which no call raised reports no error and leaves the index
\* the request found less the listed documents' entries in the named tenant
\* index: untouched when it held none of them (as after an earlier rm_v2 of
\* the same ids), and such that deleting any listed id again changes nothing.
C19_DeleteIdempotent ==
    \A p \in Procs : (RmV2Done(p) /\ proc[p].errs = {}) =>
      /\ proc[p].ret = "ok"
      /\ index = proc[p].pre.index \ Listed(p, proc[p].pre.index)
      /\ Listed(p, proc[p].pre.index) = {} => index = proc[p].pre.index
      /\ \A k \in 1..Len(proc[p].ids) :
           DeleteByDocId(index, proc[p].tenant, proc[p].ids[k]) = index

\* rm_v2 has returned for ids that had no entry in an index that holds others
C19_Witness ==
    \E p \in Procs :
      /\ RmV2Done(p) /\ proc[p].ret = "ok"
      /\ Listed(p, proc[p].pre.index) = {}
      /\ \E e \in index : e.idx = IndexName(proc[p].tenant)

IsInt(v) == v[1] = "int"

IsFloat(v) == v[1] = "float"

\* the numeric fields a request's parser_config holds are integers in the
\* job's (the threshold a float), and a key the request had the job has
NormalizedFrom(c, jc) ==
    IF c = NoParserConfig THEN jc = NoParserConfig
    ELSE /\ jc # NoParserConfig
         /\ c.chunk_token_num # Absent => IsInt(jc.chunk_token_num)
         /\ c.chunk_token_num = Absent => jc.chunk_token_num = Absent
         /\ IF c.raptor = NoRaptor THEN jc.raptor = NoRaptor
            ELSE /\ jc.raptor # NoRaptor
                 /\ c.raptor.max_cluster # Absent => IsInt(jc.raptor.max_cluster)
                 /\ c.raptor.max_token # Absent => IsInt(jc.raptor.max_token)
                 /\ c.raptor.random_seed # Absent => IsInt(jc.raptor.random_seed)
                 /\ c.raptor.threshold # Absent => IsFloat(jc.raptor.threshold)

\* C20: the job run_v2 has enqueued for the m-th document it got through
\* carries that document's parser_config with chunk_token_num and raptor's
\* max_cluster, max_token and random_seed as integers and raptor's threshold
\* as a float, wherever the request has them, and carries a language, which
\* is "English" when the request has none.
C20_JobsNormalized ==
    \A p \in Procs : proc[p].op = "run_v2" =>
      \A m \in 1..Len(Enqueued(p)) :
        LET j == Enqueued(p)[m][3] IN
          jobs[j].st = "queued" =>
            /\ jobs[j].kind = "v2"
            /\ NormalizedFrom(proc[p].req.configs[m], jobs[j].cfg)
            /\ jobs[j].lang # NoLanguage
            /\ proc[p].req.language = NoLanguage => jobs[j].lang = "English"

\* run_v2 has enqueued the job of a document whose parser_config came with a
\* float, numeric strings and a raptor section, in a request without language
C20_Witness ==
    \E p \in Procs :
      /\ proc[p].op = "run_v2" /\ proc[p].pc = "done" /\ proc[p].ret = "ok"
      /\ proc[p].req.language = NoLanguage
      /\ \E m \in 1..Len(proc[p].ids) :
           /\ proc[p].req.configs[m] # NoParserConfig
           /\ proc[p].req.configs[m].chunk_token_num = Float25
           /\ proc[p].req.configs[m].raptor # NoRaptor
           /\ proc[p].req.configs[m].raptor.max_cluster = Str3
           /\ proc[p].req.configs[m].raptor.threshold = Str25

ChangeStatusDone(p) ==
    /\ proc[p].op = "change_status" /\ proc[p].pc = "done"
    /\ proc[p].ret # "exception"
    /\ proc[p].pre.docs[proc[p].ids[1]] # NoDoc

\* C21: a change_status of a document with a status value other than 0 or 1
\* answers with the argument error and leaves the registry and the index as
\* the request found them.
C21_BadStatusRejected ==
    \A p \in Procs :
      (ChangeStatusDone(p) /\ proc[p].val \notin StatusValues) =>
        /\ proc[p].ret = StatusArgumentError
        /\ docs = proc[p].pre.docs
        /\ index = proc[p].pre.index

\* C22: no two documents of one knowledge base have the same name, whatever
\* the interleaving of create, web_crawl and rename requests.
C22_UniqueNames ==
    \A d1, d2 \in DocIds :
      (Exists(d1) /\ Exists(d2) /\ d1 # d2 /\ docs[d1].kb = docs[d2].kb) =>
        docs[d1].name # docs[d2].name

====
